---- MODULE Spec2Model ----
(***************************************************************************)
(* Model of ggegui's Painter (src/painter.rs): the texture-delta queue,    *)
(* the texture store (textures + images), the per-frame batching of        *)
(* clipped primitives into paint_jobs, and draw.                           *)
(***************************************************************************)
EXTENDS Integers, Sequences, FiniteSets, TLC

(* ------------------------------ bounds -------------------------------- *)
\* most TexturesDelta values pending at a time
MaxQueue == 2
\* most GPU images created in a run
MaxUploads == 2
\* most batches held in paint_jobs
MaxJobs == 2
\* largest vertex count of a mesh primitive
MaxVerts == 3
\* longest primitive list handed to one update
MaxShapes == 2
\* pending input events that are followed
MaxEvents == 2
\* largest width and height of an image of the pixel-buffer specification
MaxDim == 2

(* ------------------------------ values -------------------------------- *)
\* Option::None of ImageDelta.pos; Some(pos) is the pair <<x, y>>
None == <<>>
TextureIds == {"T1", "T2"}
Rgba8UnormSrgb == "Rgba8UnormSrgb"

\* egui::Color32 values (premultiplied RGBA bytes) used as texels
Red == <<255, 0, 0, 255>>

\* egui::ColorImage { size, pixels } and egui::FontImage { size, pixels }
ColorImage(w, h, c) ==
    [kind |-> "Color", size |-> <<w, h>>, pixels |-> [i \in 1..(w * h) |-> c]]
FontImage(w, h, cov) ==
    [kind |-> "Font", size |-> <<w, h>>, pixels |-> [i \in 1..(w * h) |-> cov]]

(* ------------------------- HashMap operations ------------------------- *)
\* a HashMap is the set of its (key, value) entries
ContainsKey(m, k) == \E e \in m : e.k = k
Get(m, k) == (CHOOSE e \in m : e.k = k).v
\* HashMap::insert: the entry of k is replaced
MapInsert(m, k, v) == {e \in m : e.k # k} \cup {[k |-> k, v |-> v]}
\* HashMap::remove: no entry of k is left; nothing happens for an absent k
MapRemove(m, k) == {e \in m : e.k # k}

(* ------------------------------- PixBuf -------------------------------- *)
RECURSIVE Extend(_, _, _)
\* pix.extend(pixel.to_array()) for every pixel of the list, in order
Extend(pix, pixels, i) ==
    IF i > Len(pixels) THEN pix
    ELSE Extend(pix \o pixels[i], pixels, i + 1)

\* FontImage::srgba_pixels: coverage 0.0 / 1.0 as premultiplied white
CoverageToColor(cov) == LET a == IF cov = 1 THEN 255 ELSE 0 IN <<a, a, a, a>>

from_color(color) ==
    [pix |-> Extend(<<>>, color.pixels, 1), w |-> color.size[1], h |-> color.size[2]]

\* fault: one byte, the coverage, is stored for a pixel
from_font_coverage_only(font) ==
    [pix |-> [i \in 1..Len(font.pixels) |-> CoverageToColor(font.pixels[i])[4]],
     w |-> font.size[1], h |-> font.size[2]]
from_font(font) ==
    [pix |-> Extend(<<>>, [i \in 1..Len(font.pixels) |-> CoverageToColor(font.pixels[i])], 1),
     w |-> font.size[1], h |-> font.size[2]]

from_image_data(img) ==
    IF img.kind = "Color" THEN from_color(img) ELSE from_font(img)

\* graphics::Image::from_pixels(ctx, pix, Rgba8UnormSrgb, w, h): a new GPU
\* image; serial tells one upload from another
to_texture(pixbuf, serial) ==
    [format |-> Rgba8UnormSrgb, width |-> pixbuf.w, height |-> pixbuf.h,
     pixels |-> pixbuf.pix, serial |-> serial]

\* PixBuf::blit: walks the rows pos.1 .. pos.1 + pix.h and prints the index
\* pairs "{i} <- {j}"; no byte of self is written
BlitRow(self, pix, pos, row) ==
    LET dst == row * self.w + pos[1]
        src == row * pix.h
    IN [k \in 1..pix.w |-> <<dst + k - 1, src + k - 1>>]

RECURSIVE BlitRows(_, _, _, _)
BlitRows(self, pix, pos, row) ==
    IF row >= pos[2] + pix.h THEN <<>>
    ELSE BlitRow(self, pix, pos, row) \o BlitRows(self, pix, pos, row + 1)

blit(self, pix, pos) ==
    [buf |-> self, printed |-> BlitRows(self, pix, pos, pos[2])]

(* --------------------------- texture deltas ---------------------------- *)
\* one entry of egui::TexturesDelta.set: (id, ImageDelta { image, pos })
SetEntry(id, image, pos) == [id |-> id, image |-> image, pos |-> pos]
\* egui::TexturesDelta { set, free }
TexturesDelta(set, free) == [set |-> set, free |-> free]

\* the texture store of a Painter
Store(tex, img, up) == [textures |-> tex, images |-> img, uploads |-> up]

\* fault: the PixBuf is not stored
SetFullNoImage(st, e) ==
    LET pixbuf == from_image_data(e.image) IN
    Store(MapInsert(st.textures, e.id, to_texture(pixbuf, st.uploads + 1)),
          st.images,
          st.uploads + 1)
\* fault: a live id keeps its old record
SetFullKeepFirst(st, e) ==
    IF ContainsKey(st.textures, e.id) THEN st
    ELSE LET pixbuf == from_image_data(e.image) IN
         Store(MapInsert(st.textures, e.id, to_texture(pixbuf, st.uploads + 1)),
               MapInsert(st.images, e.id, pixbuf),
               st.uploads + 1)
\* body of the "set textures" loop for one (id, delta), no offset:
\* textures.insert(id, pixbuf.to_texture(ctx)); images.insert(id, pixbuf)
SetFull(st, e) ==
    LET pixbuf == from_image_data(e.image) IN
    Store(MapInsert(st.textures, e.id, to_texture(pixbuf, st.uploads + 1)),
          MapInsert(st.images, e.id, pixbuf),
          st.uploads + 1)

\* ... with an offset and a known image: images.remove(id), blit into the
\* removed buffer, which is then dropped
SetOffset(st, e) ==
    LET pixbuf == from_image_data(e.image)
        img == blit(Get(st.images, e.id), pixbuf, e.pos).buf
    IN Store(st.textures, MapRemove(st.images, e.id), st.uploads)

\* fault: the sub-image is stored as the image of the id
SetUnknownInserts(st, e) ==
    Store(st.textures, MapInsert(st.images, e.id, from_image_data(e.image)), st.uploads)
\* ... with an offset and no image of that id: "unknown image", continue;
\* nothing is changed
SetUnknown(st, e) == st

\* fault: the GPU image is left in self.textures
FreeTextureOnlyImages(st, id) ==
    Store(st.textures, MapRemove(st.images, id), st.uploads)
\* body of the "free textures" loop for one id:
\* textures.remove(id); images.remove(id)
FreeTexture(st, id) ==
    Store(MapRemove(st.textures, id), MapRemove(st.images, id), st.uploads)

\* fault: the values behind the first are discarded
PopFrontDropsRest(q) == [item |-> Head(q), rest |-> <<>>]
\* fault: the newest pending value is taken first
PopBack(q) == [item |-> q[Len(q)], rest |-> SubSeq(q, 1, Len(q) - 1)]
\* LinkedList::pop_front
PopFront(q) == [item |-> Head(q), rest |-> Tail(q)]

(* ----------------------------- primitives ------------------------------ *)
\* egui::epaint::Vertex { pos, uv, color }
Vertex(i) == [pos |-> <<i, i>>, uv |-> <<0, 1>>, color |-> Red]
Vertices(n) == [i \in 1..n |-> Vertex(i)]

\* egui::ClippedPrimitive { primitive: Mesh(mesh), clip_rect }
MeshPrimitive(id, n, clip) ==
    [type |-> "Mesh", texture_id |-> id, vertices |-> Vertices(n),
     indices |-> [i \in 1..n |-> i - 1], clip_rect |-> clip]
\* egui::ClippedPrimitive { primitive: Callback(_), clip_rect }
CallbackPrimitive(clip) == [type |-> "Callback", clip_rect |-> clip]

\* egui::Rect { min, max } in logical units
ClipRect(x0, y0, x1, y1) == [min |-> <<x0, y0>>, max |-> <<x1, y1>>]

\* egui::Rgba::from(Color32).to_array() for the channel values 0 and 255
LinearFromGamma(b) == IF b = 255 THEN 1 ELSE 0
ToRgbaArray(c) == [i \in 1..4 |-> LinearFromGamma(c[i])]

\* the |v| graphics::Vertex { position, uv, color } closure of update
ToGraphicsVertex(v) == [position |-> v.pos, uv |-> v.uv, color |-> ToRgbaArray(v.color)]

\* graphics::Mesh::from_data(ctx, MeshData { vertices, indices })
MeshFromData(vertices, indices) == [vertices |-> vertices, indices |-> indices]

\* graphics::Rect::new(x, y, w, h) of the scaled clip rectangle
\* fault: the max corner is taken for the extent
ScaledClipMaxAsExtent(clip_rect, sf) ==
    [x |-> clip_rect.min[1] * sf,
     y |-> clip_rect.min[2] * sf,
     w |-> clip_rect.max[1] * sf,
     h |-> clip_rect.max[2] * sf]
\* graphics::Rect::new(min.x * sf, min.y * sf, (max.x - min.x) * sf, (max.y - min.y) * sf)
ScaledClip(clip_rect, sf) ==
    [x |-> clip_rect.min[1] * sf,
     y |-> clip_rect.min[2] * sf,
     w |-> (clip_rect.max[1] - clip_rect.min[1]) * sf,
     h |-> (clip_rect.max[2] - clip_rect.min[2]) * sf]

\* the tuple pushed on paint_jobs for a mesh primitive
PaintJob(prim, sf) ==
    [id |-> prim.texture_id,
     mesh |-> MeshFromData([i \in 1..Len(prim.vertices) |-> ToGraphicsVertex(prim.vertices[i])],
                           prim.indices),
     clip |-> ScaledClip(prim.clip_rect, sf)]

\* fault: the threshold is off by one
IsDegenerateOff(prim) == Len(prim.vertices) < 2
\* "if mesh.vertices.len() < 3 { continue; }"
IsDegenerate(prim) == Len(prim.vertices) < 3

\* fault: the batch is put in front
PushJobFront(jobs, job) == <<job>> \o jobs
\* fault: the batch replaces the list
PushJobReplace(jobs, job) == <<job>>
\* self.paint_jobs.push(job)
PushJob(jobs, job) == Append(jobs, job)

(* -------------------------------- canvas ------------------------------- *)
\* the BlendMode literal installed by draw
GuiBlend ==
    [color |-> [src_factor |-> "One", dst_factor |-> "OneMinusSrcAlpha", operation |-> "Add"],
     alpha |-> [src_factor |-> "OneMinusDstAlpha", dst_factor |-> "One", operation |-> "Add"]]
\* blend modes a caller may have installed before draw
AlphaBlend ==
    [color |-> [src_factor |-> "SrcAlpha", dst_factor |-> "OneMinusSrcAlpha", operation |-> "Add"],
     alpha |-> [src_factor |-> "OneMinusDstAlpha", dst_factor |-> "One", operation |-> "Add"]]
CallerBlends == {AlphaBlend, GuiBlend}
DefaultScissor == [default |-> TRUE]
\* no canvas is at hand outside a draw call
NoCanvas == [blend |-> AlphaBlend, scissor |-> DefaultScissor]

\* Canvas::set_scissor_rect(rect) is Err for a rectangle of no width or height
ScissorRejected(rect) == rect.w < 1 \/ rect.h < 1

(* -------------------------------- state -------------------------------- *)
VARIABLES
    shapes,          \* Painter.shapes: the primitives of the current frame
    textures_delta,  \* Painter.textures_delta: pending TexturesDelta values
    paint_jobs,      \* Painter.paint_jobs: (id, mesh, clip) batches
    textures,        \* Painter.textures: id -> GPU image
    images,          \* Painter.images: id -> PixBuf
    uploads,         \* number of GPU images created so far
    pc,              \* position of the running call: idle, drain, set, free,
                     \* batch, draw or panicked
    set_iter,        \* rest of "for (id, delta) in &textures_delta.set"
    free_iter,       \* rest of "for id in &textures_delta.free"
    shape_idx,       \* position of "for ... in self.shapes.iter()"
    scale_factor,    \* the scale_factor argument of the running call
    canvas,          \* the canvas handed to draw: blend mode and scissor
    prev_blend,      \* draw's local prev_blend
    job_idx,         \* position of "for (id, mesh, clip) in self.paint_jobs.iter()"
    draw_calls,      \* draw_textured_mesh calls issued by the running/last draw
    last,            \* history: the texture delta applied by the last step
    at_start,        \* history: what the running call found when it was entered
                     \* (update: store, pending deltas, batches; draw: blend mode)
    freed,           \* history: per id the texture entry a Free delta removed,
                     \* until a Set delta creates the id again
    mixed,           \* history: paint_jobs holds batches of an update before
                     \* the last one
    events           \* Input.raw.events: the pending input events

vars == <<shapes, textures_delta, paint_jobs, textures, images, uploads, pc,
          set_iter, free_iter, shape_idx, scale_factor, canvas, prev_blend,
          job_idx, draw_calls, last, at_start, freed, mixed, events>>

painter_store == <<textures, images, uploads>>
update_locals == <<set_iter, free_iter, shape_idx, scale_factor>>
draw_state == <<canvas, prev_blend, job_idx, draw_calls>>

NoDelta == [op |-> "None"]
NotStarted == [op |-> "None"]
CurStore == Store(textures, images, uploads)

\* Painter::default() and a fresh canvas
Init ==
    /\ shapes = <<>>
    /\ textures_delta = <<>>
    /\ paint_jobs = <<>>
    /\ textures = {}
    /\ images = {}
    /\ uploads = 0
    /\ pc = "idle"
    /\ set_iter = <<>>
    /\ free_iter = <<>>
    /\ shape_idx = 1
    /\ scale_factor = 1
    /\ canvas = NoCanvas
    /\ prev_blend = AlphaBlend
    /\ job_idx = 1
    /\ draw_calls = <<>>
    /\ last = NoDelta
    /\ at_start = NotStarted
    /\ freed = {}
    /\ mixed = FALSE
    /\ events = <<>>

RECURSIVE Flatten(_)
\* the single deltas of a queue of TexturesDelta values in the order
\* update_textures meets them: per value its set entries, then its free ids
Flatten(q) ==
    IF q = <<>> THEN <<>>
    ELSE [i \in 1..Len(Head(q).set) |-> [op |-> "Set", e |-> Head(q).set[i]]]
         \o [i \in 1..Len(Head(q).free) |-> [op |-> "Free", id |-> Head(q).free[i]]]
         \o Flatten(Tail(q))

\* number of no-offset Set deltas in a list of single deltas
FullSets(ds) == Cardinality({i \in 1..Len(ds) : ds[i].op = "Set" /\ ds[i].e.pos = None})

(* ------------------- the GUI library hands over output ------------------ *)
\* end of an egui frame: the frame's TexturesDelta is queued behind the
\* pending ones
PushDelta(td) ==
    /\ pc = "idle"
    /\ Len(textures_delta) < MaxQueue
    /\ uploads + FullSets(Flatten(Append(textures_delta, td))) <= MaxUploads
    /\ textures_delta' = Append(textures_delta, td)
    /\ at_start' = NotStarted
    /\ draw_calls' = <<>>
    /\ canvas' = NoCanvas
    /\ prev_blend' = AlphaBlend
    /\ UNCHANGED <<events, mixed, shapes, paint_jobs, painter_store, pc, update_locals,
                   job_idx, last, freed>>

\* end of an egui frame: the tessellated primitives replace Painter.shapes
SetShapes(s) ==
    /\ pc = "idle"
    /\ s # shapes
    /\ shapes' = s
    /\ at_start' = NotStarted
    /\ draw_calls' = <<>>
    /\ canvas' = NoCanvas
    /\ prev_blend' = AlphaBlend
    /\ UNCHANGED <<events, mixed, textures_delta, paint_jobs, painter_store, pc, update_locals,
                   job_idx, last, freed>>

(* ---------------------------- Painter::clear --------------------------- *)
Clear ==
    /\ pc = "idle"
    /\ paint_jobs # <<>>
    /\ paint_jobs' = <<>>
    /\ mixed' = FALSE
    /\ at_start' = NotStarted
    /\ draw_calls' = <<>>
    /\ canvas' = NoCanvas
    /\ prev_blend' = AlphaBlend
    /\ UNCHANGED <<events, shapes, textures_delta, painter_store, pc, update_locals,
                   job_idx, last, freed>>

(* ---------------------------- Painter::update -------------------------- *)
UpdateBegin(sf) ==
    /\ pc = "idle"
    /\ Len(paint_jobs) + Len(shapes) <= MaxJobs
    /\ pc' = "drain"
    /\ mixed' = (paint_jobs # <<>>)
    /\ draw_calls' = <<>>
    /\ canvas' = NoCanvas
    /\ prev_blend' = AlphaBlend
    /\ scale_factor' = sf
    /\ at_start' = [op |-> "Update", store |-> CurStore, deltas |-> Flatten(textures_delta),
                    jobs |-> paint_jobs]
    /\ UNCHANGED <<events, shapes, textures_delta, paint_jobs, painter_store, set_iter,
                   free_iter, shape_idx, job_idx, last, freed>>

\* "while let Some(textures_delta) = self.textures_delta.pop_front()":
\* a value is popped and update_textures starts on it
DrainPop ==
    /\ pc = "drain"
    /\ textures_delta # <<>>
    /\ LET p == PopFront(textures_delta) IN
         /\ textures_delta' = p.rest
         /\ set_iter' = p.item.set
         /\ free_iter' = p.item.free
    /\ pc' = "set"
    /\ last' = NoDelta
    /\ UNCHANGED <<events, mixed, shapes, paint_jobs, painter_store, shape_idx, scale_factor,
                   draw_state, at_start, freed>>

\* the queue is empty: the loop over self.shapes starts
DrainDone ==
    /\ pc = "drain"
    /\ textures_delta = <<>>
    /\ pc' = "batch"
    /\ shape_idx' = 1
    /\ last' = NoDelta
    /\ UNCHANGED <<events, mixed, shapes, textures_delta, paint_jobs, painter_store, set_iter,
                   free_iter, scale_factor, draw_state, at_start, freed>>

\* one step of a texture-delta loop leaves the store st behind
StoreBecomes(st) ==
    /\ textures' = st.textures
    /\ images' = st.images
    /\ uploads' = st.uploads

\* set loop, delta.pos is None
SetNoOffset ==
    /\ pc = "set"
    /\ set_iter # <<>>
    /\ Head(set_iter).pos = None
    /\ StoreBecomes(SetFull(CurStore, Head(set_iter)))
    /\ set_iter' = Tail(set_iter)
    /\ freed' = {t \in freed : t.k # Head(set_iter).id}
    /\ last' = [op |-> "SetFull", e |-> Head(set_iter), before |-> CurStore,
                freed |-> {t \in freed : t.k = Head(set_iter).id}]
    /\ UNCHANGED <<events, mixed, shapes, textures_delta, paint_jobs, pc, free_iter, shape_idx,
                   scale_factor, draw_state, at_start>>

\* set loop, delta.pos is Some(pos) and self.images holds the id
SetOffsetKnown ==
    /\ pc = "set"
    /\ set_iter # <<>>
    /\ Head(set_iter).pos # None
    /\ ContainsKey(images, Head(set_iter).id)
    /\ StoreBecomes(SetOffset(CurStore, Head(set_iter)))
    /\ set_iter' = Tail(set_iter)
    /\ last' = [op |-> "SetOffset", e |-> Head(set_iter), before |-> CurStore]
    /\ UNCHANGED <<events, mixed, shapes, textures_delta, paint_jobs, pc, free_iter, shape_idx,
                   scale_factor, draw_state, at_start, freed>>

\* set loop, delta.pos is Some(pos) and self.images does not hold the id
SetOffsetUnknown ==
    /\ pc = "set"
    /\ set_iter # <<>>
    /\ Head(set_iter).pos # None
    /\ ~ContainsKey(images, Head(set_iter).id)
    /\ StoreBecomes(SetUnknown(CurStore, Head(set_iter)))
    /\ set_iter' = Tail(set_iter)
    /\ last' = [op |-> "SetUnknown", e |-> Head(set_iter), before |-> CurStore]
    /\ UNCHANGED <<events, mixed, shapes, textures_delta, paint_jobs, pc, free_iter, shape_idx,
                   scale_factor, draw_state, at_start, freed>>

\* the set loop is over: the free loop starts
SetDone ==
    /\ pc = "set"
    /\ set_iter = <<>>
    /\ pc' = "free"
    /\ last' = NoDelta
    /\ UNCHANGED <<events, mixed, shapes, textures_delta, paint_jobs, painter_store, update_locals,
                   draw_state, at_start, freed>>

\* free loop, one id
FreeStep ==
    /\ pc = "free"
    /\ free_iter # <<>>
    /\ StoreBecomes(FreeTexture(CurStore, Head(free_iter)))
    /\ free_iter' = Tail(free_iter)
    /\ freed' = IF ContainsKey(textures, Head(free_iter))
                THEN {t \in freed : t.k # Head(free_iter)}
                     \cup {t \in textures : t.k = Head(free_iter)}
                ELSE freed
    /\ last' = [op |-> "Free", id |-> Head(free_iter), before |-> CurStore]
    /\ UNCHANGED <<events, mixed, shapes, textures_delta, paint_jobs, pc, set_iter, shape_idx,
                   scale_factor, draw_state, at_start>>

\* the free loop is over: update_textures returns to the while loop
FreeDone ==
    /\ pc = "free"
    /\ free_iter = <<>>
    /\ pc' = "drain"
    /\ last' = NoDelta
    /\ UNCHANGED <<events, mixed, shapes, textures_delta, paint_jobs, painter_store, update_locals,
                   draw_state, at_start, freed>>

\* shapes loop, a Mesh primitive of fewer than 3 vertices: continue
BatchSkip ==
    /\ pc = "batch"
    /\ shape_idx <= Len(shapes)
    /\ shapes[shape_idx].type = "Mesh"
    /\ IsDegenerate(shapes[shape_idx])
    /\ shape_idx' = shape_idx + 1
    /\ UNCHANGED <<events, mixed, shapes, textures_delta, paint_jobs, painter_store, pc, set_iter,
                   free_iter, scale_factor, draw_state, last, at_start, freed>>

\* shapes loop, a Mesh primitive: its batch is pushed
BatchPush ==
    /\ pc = "batch"
    /\ shape_idx <= Len(shapes)
    /\ shapes[shape_idx].type = "Mesh"
    /\ ~IsDegenerate(shapes[shape_idx])
    /\ paint_jobs' = PushJob(paint_jobs, PaintJob(shapes[shape_idx], scale_factor))
    /\ shape_idx' = shape_idx + 1
    /\ UNCHANGED <<events, mixed, shapes, textures_delta, painter_store, pc, set_iter,
                   free_iter, scale_factor, draw_state, last, at_start, freed>>

\* fault: the Callback primitive is passed over
OnCallbackSkip == "batch"
\* what meeting a Callback primitive makes of the running call: panic!
OnCallback == "panicked"

\* shapes loop, a Callback primitive: panic!
BatchCallback ==
    /\ pc = "batch"
    /\ shape_idx <= Len(shapes)
    /\ shapes[shape_idx].type = "Callback"
    /\ pc' = OnCallback
    /\ shape_idx' = shape_idx + 1
    /\ UNCHANGED <<events, mixed, shapes, textures_delta, paint_jobs, painter_store, set_iter,
                   free_iter, scale_factor, draw_state, last, at_start, freed>>

\* the shapes loop is over: update returns
UpdateReturn ==
    /\ pc = "batch"
    /\ shape_idx > Len(shapes)
    /\ pc' = "idle"
    /\ at_start' = [op |-> "Returned", jobs |-> at_start.jobs, shapes |-> shapes,
                    scale_factor |-> scale_factor]
    /\ shape_idx' = 1
    /\ scale_factor' = 1
    /\ UNCHANGED <<events, mixed, shapes, textures_delta, paint_jobs, painter_store, set_iter,
                   free_iter, draw_state, last, freed>>

(* ----------------------------- Painter::draw --------------------------- *)
\* the caller's canvas has blend mode b installed; draw saves it and
\* installs its own
DrawBegin(b, sf) ==
    /\ pc = "idle"
    /\ prev_blend' = b
    /\ canvas' = [blend |-> GuiBlend, scissor |-> DefaultScissor]
    /\ scale_factor' = sf
    /\ job_idx' = 1
    /\ draw_calls' = <<>>
    /\ pc' = "draw"
    /\ at_start' = [op |-> "Draw", blend |-> b, jobs |-> paint_jobs]
    /\ UNCHANGED <<events, mixed, shapes, textures_delta, paint_jobs, painter_store, set_iter,
                   free_iter, shape_idx, last, freed>>

\* canvas.set_scissor_rect(*clip).unwrap() on an Err
DrawScissorFail ==
    /\ pc = "draw"
    /\ job_idx <= Len(paint_jobs)
    /\ ScissorRejected(paint_jobs[job_idx].clip)
    /\ pc' = "panicked"
    /\ UNCHANGED <<events, mixed, shapes, textures_delta, paint_jobs, painter_store, update_locals,
                   draw_state, last, at_start, freed>>

\* fault: the batch of an id the map does not hold is passed over
AfterUnknownSkip(idx) == [pc |-> "draw", job_idx |-> idx + 1]
\* self.textures[id] on an id the map does not hold panics: the loop ends
AfterUnknown(idx) == [pc |-> "panicked", job_idx |-> idx]

\* self.textures[id] on an id the map does not hold
DrawUnknownTexture ==
    /\ pc = "draw"
    /\ job_idx <= Len(paint_jobs)
    /\ ~ScissorRejected(paint_jobs[job_idx].clip)
    /\ ~ContainsKey(textures, paint_jobs[job_idx].id)
    /\ canvas' = [canvas EXCEPT !.scissor = paint_jobs[job_idx].clip]
    /\ pc' = AfterUnknown(job_idx).pc
    /\ job_idx' = AfterUnknown(job_idx).job_idx
    /\ UNCHANGED <<events, mixed, shapes, textures_delta, paint_jobs, painter_store, update_locals,
                   prev_blend, draw_calls, last, at_start, freed>>

\* fault: the call is issued before the scissor rectangle of its batch is set
DrawCallStaleScissor(job, cv, sf) ==
    [mesh |-> job.mesh, image |-> Get(textures, job.id), scale |-> <<sf, sf>>,
     scissor |-> canvas.scissor, blend |-> cv.blend]
\* the draw_textured_mesh call of one batch
DrawCall(job, cv, sf) ==
    [mesh |-> job.mesh, image |-> Get(textures, job.id), scale |-> <<sf, sf>>,
     scissor |-> cv.scissor, blend |-> cv.blend]

\* one iteration of the paint_jobs loop
DrawJob ==
    /\ pc = "draw"
    /\ job_idx <= Len(paint_jobs)
    /\ ~ScissorRejected(paint_jobs[job_idx].clip)
    /\ ContainsKey(textures, paint_jobs[job_idx].id)
    /\ canvas' = [canvas EXCEPT !.scissor = paint_jobs[job_idx].clip]
    /\ draw_calls' = Append(draw_calls, DrawCall(paint_jobs[job_idx], canvas', scale_factor))
    /\ job_idx' = job_idx + 1
    /\ UNCHANGED <<events, mixed, shapes, textures_delta, paint_jobs, painter_store, pc, update_locals,
                   prev_blend, last, at_start, freed>>

\* fault: the blend mode of draw is left installed
RestoredCanvasKeepsBlend(prev) == [blend |-> GuiBlend, scissor |-> DefaultScissor]
\* canvas.set_default_scissor_rect(); canvas.set_blend_mode(prev_blend)
RestoredCanvas(prev) == [blend |-> prev, scissor |-> DefaultScissor]

\* after the loop: default scissor, saved blend mode, return
DrawReturn ==
    /\ pc = "draw"
    /\ job_idx > Len(paint_jobs)
    /\ canvas' = RestoredCanvas(prev_blend)
    /\ at_start' = [op |-> "Drawn", blend |-> at_start.blend, jobs |-> at_start.jobs]
    /\ pc' = "idle"
    /\ job_idx' = 1
    /\ scale_factor' = 1
    /\ UNCHANGED <<events, mixed, shapes, textures_delta, paint_jobs, painter_store, set_iter,
                   free_iter, shape_idx, prev_blend, draw_calls, last, freed>>

(* -------------------------------- Input -------------------------------- *)
\* a char is its code point
\* char::is_ascii_control: U+0000..U+001F and U+007F
is_ascii_control(chr) == chr <= 31 \/ chr = 127

\* fault: only the private use area of the basic plane is excluded
is_printable_bmp_only(chr) ==
    LET is_in_private_use_area == chr >= 57344 /\ chr <= 63743
    IN  ~is_in_private_use_area /\ ~is_ascii_control(chr)
\* U+E000..U+F8FF, U+F0000..U+FFFFD, U+100000..U+10FFFD are excluded
is_printable(chr) ==
    LET is_in_private_use_area ==
            \/ chr >= 57344 /\ chr <= 63743
            \/ chr >= 983040 /\ chr <= 1048573
            \/ chr >= 1048576 /\ chr <= 1114109
    IN  ~is_in_private_use_area /\ ~is_ascii_control(chr)

\* ch.to_string(): the string of the one char
to_string(ch) == <<ch>>
TextEvent(ch) == [type |-> "Text", text |-> to_string(ch)]
ScrollEvent(x, y) == [type |-> "Scroll", delta |-> <<x, y>>]

painter_vars == <<shapes, textures_delta, paint_jobs, textures, images, uploads, pc,
                  set_iter, free_iter, shape_idx, scale_factor, canvas, prev_blend,
                  job_idx, draw_calls, at_start, freed, mixed>>

\* Input::text_input_event
text_input_event(ch) ==
    /\ Len(events) < MaxEvents
    /\ events' = IF is_printable(ch) THEN Append(events, TextEvent(ch)) ELSE events
    /\ last' = [op |-> "TextInput", ch |-> ch, before |-> events]
    /\ UNCHANGED painter_vars

\* Input::mouse_wheel_event
mouse_wheel_event(x, y) ==
    /\ Len(events) < MaxEvents
    /\ events' = Append(events, ScrollEvent(x, y))
    /\ last' = NoDelta
    /\ UNCHANGED painter_vars

\* Input::take: raw.take() hands the pending events over and leaves none
take ==
    /\ events # <<>>
    /\ events' = <<>>
    /\ last' = NoDelta
    /\ UNCHANGED painter_vars

(* ------------------------------ input sets ----------------------------- *)
\* all lists over S of at most n elements
SeqsUpTo(S, n) == UNION {[1..k -> S] : k \in 0..n}

ImgA == ColorImage(1, 1, Red)
ImgB == FontImage(2, 1, 1)
ClipA == ClipRect(10, 10, 50, 40)
ClipEmpty == ClipRect(10, 10, 10, 40)
ClipB == ClipRect(0, 5, 20, 30)
\* scale factors handed to update and draw
Scales == {2}

\* texture deltas of the texture-store specification
TexSetEntries == {SetEntry("T1", ImgA, None), SetEntry("T1", ImgB, None),
                  SetEntry("T2", ImgA, None), SetEntry("T1", ImgA, <<0, 0>>)}
TexDeltas == {TexturesDelta(s, f) : s \in SeqsUpTo(TexSetEntries, 1),
                                    f \in SeqsUpTo(TextureIds, 1)}

\* primitives of the batching specification
BatchPrims == {MeshPrimitive("T1", n, ClipA) : n \in 0..MaxVerts}
              \cup {MeshPrimitive("T2", 3, ClipA), CallbackPrimitive(ClipA)}
BatchShapes == SeqsUpTo(BatchPrims, MaxShapes)

\* texture deltas and primitives of the frame specification
FrameDeltas == {TexturesDelta(<<SetEntry(id, ImgA, None)>>, <<>>) : id \in TextureIds}
               \cup {TexturesDelta(<<>>, <<id>>) : id \in TextureIds}
               \cup {TexturesDelta(<<SetEntry("T1", ImgA, <<0, 0>>)>>, <<>>)}
FramePrims == {MeshPrimitive("T1", 3, ClipA), MeshPrimitive("T2", 3, ClipA),
               MeshPrimitive("T1", 3, ClipEmpty), CallbackPrimitive(ClipA)}
FrameShapes == SeqsUpTo(FramePrims, MaxShapes)

\* texture deltas and primitives of the drawing specification
DrawDeltas == {TexturesDelta(<<SetEntry(id, ImgA, None)>>, <<>>) : id \in TextureIds}
              \cup {TexturesDelta(<<>>, <<"T1">>)}
DrawPrims == {MeshPrimitive("T1", 3, ClipA), MeshPrimitive("T2", 3, ClipB)}
DrawShapes == SeqsUpTo(DrawPrims, MaxShapes)

(* ---------------------------- specifications --------------------------- *)
UpdateSteps ==
    \/ DrainPop \/ DrainDone
    \/ SetNoOffset \/ SetOffsetKnown \/ SetOffsetUnknown \/ SetDone
    \/ FreeStep \/ FreeDone

\* the texture store under every delta sequence
NextTex ==
    \/ \E td \in TexDeltas : PushDelta(td)
    \/ UpdateBegin(1)
    \/ UpdateSteps
    \/ UpdateReturn

SpecTex == Init /\ [][NextTex]_vars

\* batching of every primitive list, no texture traffic
NextBatch ==
    \/ \E s \in BatchShapes : SetShapes(s)
    \/ Clear
    \/ \E sf \in Scales : UpdateBegin(sf)
    \/ DrainDone
    \/ BatchSkip \/ BatchPush \/ BatchCallback
    \/ UpdateReturn

SpecBatch == Init /\ [][NextBatch]_vars

\* frames of valid meshes over textures that are created and freed:
\* clear, update and draw in every order
NextDraw ==
    \/ \E td \in DrawDeltas : PushDelta(td)
    \/ \E s \in DrawShapes : SetShapes(s)
    \/ Clear
    \/ \E sf \in Scales : UpdateBegin(sf)
    \/ DrainPop \/ DrainDone
    \/ SetNoOffset \/ SetDone
    \/ FreeStep \/ FreeDone
    \/ BatchPush
    \/ UpdateReturn
    \/ \E b \in CallerBlends, sf \in Scales : DrawBegin(b, sf)
    \/ DrawUnknownTexture \/ DrawJob
    \/ DrawReturn

SpecDraw == Init /\ [][NextDraw]_vars

\* text input: chars around every boundary of the filter
Chars == {0, 9, 31, 32, 65, 126, 127, 128, 133, 159, 160, 55295,
          57344, 63743, 63744, 983039, 983040, 1048573, 1048574,
          1048576, 1114109, 1114110, 1114111}

NextInput ==
    \/ \E ch \in Chars : text_input_event(ch)
    \/ mouse_wheel_event(0, 1)
    \/ take

SpecInput == Init /\ [][NextInput]_vars

\* pixel buffers: a texture is set from a color or font image of any size up
\* to MaxDim x MaxDim, the empty sizes included, and then patched at an offset
PixImages == {ColorImage(w, h, Red) : w \in 0..MaxDim, h \in 0..MaxDim}
                 \cup {FontImage(w, h, 1) : w \in 0..MaxDim, h \in 0..MaxDim}
PixOffsets == {<<x, y>> : x \in 0..1, y \in 0..1}
PixQueues ==
    {<<TexturesDelta(<<SetEntry("T1", a, None)>>, <<>>)>> : a \in PixImages}
    \cup {<<TexturesDelta(<<SetEntry("T1", a, None)>>, <<>>),
            TexturesDelta(<<SetEntry("T1", b, pos)>>, <<>>)>> :
              a \in PixImages, b \in PixImages, pos \in PixOffsets}
    \cup {<<TexturesDelta(<<SetEntry("T1", a, None)>>, <<"T1">>),
            TexturesDelta(<<SetEntry("T1", ImgA, <<0, 0>>)>>, <<>>)>> : a \in PixImages}

InitPix ==
    /\ shapes = <<>>
    /\ textures_delta \in PixQueues
    /\ paint_jobs = <<>>
    /\ textures = {}
    /\ images = {}
    /\ uploads = 0
    /\ pc = "idle"
    /\ set_iter = <<>>
    /\ free_iter = <<>>
    /\ shape_idx = 1
    /\ scale_factor = 1
    /\ canvas = NoCanvas
    /\ prev_blend = AlphaBlend
    /\ job_idx = 1
    /\ draw_calls = <<>>
    /\ last = NoDelta
    /\ at_start = NotStarted
    /\ freed = {}
    /\ mixed = FALSE
    /\ events = <<>>

NextPix ==
    \/ UpdateBegin(1)
    \/ DrainPop \/ DrainDone
    \/ SetNoOffset \/ SetOffsetKnown \/ SetOffsetUnknown \/ SetDone
    \/ FreeStep \/ FreeDone
    \/ UpdateReturn

SpecPix == InitPix /\ [][NextPix]_vars

\* clip-rectangle scaling: one primitive of any clip rectangle is batched at
\* any of several scale factors
ClipCoords == {0, 10, 40, 50}
ClipRects == {ClipRect(x0, y0, x1, y1) : x0 \in ClipCoords, y0 \in ClipCoords,
                                         x1 \in ClipCoords, y1 \in ClipCoords}
ClipScales == {1, 2, 3}

InitClip ==
    /\ shapes \in {<<MeshPrimitive("T1", 3, c)>> : c \in ClipRects}
    /\ textures_delta = <<>>
    /\ paint_jobs = <<>>
    /\ textures = {}
    /\ images = {}
    /\ uploads = 0
    /\ pc = "idle"
    /\ set_iter = <<>>
    /\ free_iter = <<>>
    /\ shape_idx = 1
    /\ scale_factor = 1
    /\ canvas = NoCanvas
    /\ prev_blend = AlphaBlend
    /\ job_idx = 1
    /\ draw_calls = <<>>
    /\ last = NoDelta
    /\ at_start = NotStarted
    /\ freed = {}
    /\ mixed = FALSE
    /\ events = <<>>

NextClip ==
    \/ \E sf \in ClipScales : UpdateBegin(sf)
    \/ DrainDone
    \/ BatchPush
    \/ UpdateReturn
    \/ Clear

SpecClip == InitClip /\ [][NextClip]_vars

\* whole frames: deltas, primitives, clear, update, draw
Next ==
    \/ \E td \in FrameDeltas : PushDelta(td)
    \/ \E s \in FrameShapes : SetShapes(s)
    \/ Clear
    \/ \E sf \in Scales : UpdateBegin(sf)
    \/ UpdateSteps
    \/ BatchPush \/ BatchCallback
    \/ UpdateReturn
    \/ \E b \in CallerBlends, sf \in Scales : DrawBegin(b, sf)
    \/ DrawScissorFail \/ DrawUnknownTexture \/ DrawJob
    \/ DrawReturn

Spec == Init /\ [][Next]_vars

(* =============================== claims ================================ *)
\* one delta applied to a store, as the loops of update_textures apply it
ApplyOne(st, d) ==
    IF d.op = "Free" THEN FreeTexture(st, d.id)
    ELSE IF d.e.pos = None THEN SetFull(st, d.e)
    ELSE IF ContainsKey(st.images, d.e.id) THEN SetOffset(st, d.e)
    ELSE SetUnknown(st, d.e)

RECURSIVE ApplySeq(_, _)
\* the deltas of ds applied one at a time, first to last
ApplySeq(st, ds) ==
    IF ds = <<>> THEN st ELSE ApplySeq(ApplyOne(st, Head(ds)), Tail(ds))

Reverse(q) == [i \in 1..Len(q) |-> q[Len(q) + 1 - i]]
RemoveAt(q, i) == SubSeq(q, 1, i - 1) \o SubSeq(q, i + 1, Len(q))
RecordsOf(m, id) == {t \in m : t.k = id}
Live(st, id) == \E t \in st.textures : t.k = id

\* C1: update applies the queued deltas in arrival order and all of them
\* before a primitive is batched: while deltas are being applied no batch
\* has been pushed; when batching starts the queue is empty and the store is
\* the one got by applying the deltas queued at entry one at a time, first
\* to last; the queue is empty when update has returned.
C1_FifoDrainBeforeBatching ==
    /\ pc \in {"drain", "set", "free"} => paint_jobs = at_start.jobs
    /\ pc = "batch" =>
         /\ textures_delta = <<>> /\ set_iter = <<>> /\ free_iter = <<>>
         /\ CurStore = ApplySeq(at_start.store, at_start.deltas)
    /\ at_start.op = "Returned" => textures_delta = <<>>

\* C1 witness: batching has started on a non-empty primitive list after a
\* queue whose order matters was applied
C1_Witness ==
    /\ pc = "batch" /\ shapes # <<>> /\ paint_jobs # at_start.jobs
    /\ Len(at_start.deltas) >= 2
    /\ ApplySeq(at_start.store, at_start.deltas)
         # ApplySeq(at_start.store, Reverse(at_start.deltas))

\* C2: after a no-offset Set for id X with a w x h image, X has exactly one
\* GPU image, of size w x h and format Rgba8UnormSrgb, created by this Set,
\* whether or not X was live before.
C2_SetCreatesOrReplaces ==
    last.op = "SetFull" =>
        LET X == last.e.id
            recs == RecordsOf(textures, X)
        IN /\ Cardinality(recs) = 1
           /\ \A t \in recs :
                /\ t.v.format = Rgba8UnormSrgb
                /\ t.v.width = last.e.image.size[1]
                /\ t.v.height = last.e.image.size[2]
                /\ t \notin last.before.textures

\* C2 witness: a no-offset Set replaced a live record of another size
C2_Witness ==
    /\ last.op = "SetFull"
    /\ \E t \in last.before.textures :
         t.k = last.e.id /\ t.v.width # last.e.image.size[1]

\* C3: a record created by a no-offset Set keeps its PixBuf and its GPU image
\* until a Free for its id is applied; no other delta removes a part of it.
C3_RecordKeptUntilFree ==
    last.op \in {"SetFull", "SetOffset", "SetUnknown", "Free"} =>
        \A X \in TextureIds :
            ( /\ ContainsKey(last.before.textures, X)
              /\ ContainsKey(last.before.images, X)
              /\ ~(last.op = "Free" /\ last.id = X) )
            => (ContainsKey(textures, X) /\ ContainsKey(images, X))

\* C4: a Free for id X removes the PixBuf and the GPU image of X and leaves
\* every other record as it was; for an X that is not live the store is
\* unchanged; the loop goes on without an error.
C4_FreeRemovesOnlyItsRecord ==
    last.op = "Free" =>
        LET X == last.id IN
        /\ textures = {t \in last.before.textures : t.k # X}
        /\ images = {t \in last.before.images : t.k # X}
        /\ ~Live(last.before, X) =>
             (textures = last.before.textures /\ images = last.before.images)
        /\ pc = "free"

\* C4 witness: a Free removed a live record while another id was live
C4_Witness ==
    /\ last.op = "Free"
    /\ Live(last.before, last.id)
    /\ ContainsKey(last.before.images, last.id)
    /\ \E t \in textures : t.k # last.id

\* C5: a no-offset Set for X applied after a Free that removed the record
\* of X leaves exactly one GPU image and one PixBuf for X, both made from the
\* Set's image, and the GPU image the Free removed is not in the store.
C5_FreeThenSetOneRecord ==
    (last.op = "SetFull" /\ last.freed # {}) =>
        LET X == last.e.id IN
        /\ Cardinality(RecordsOf(textures, X)) = 1
        /\ Cardinality(RecordsOf(images, X)) = 1
        /\ \A t \in RecordsOf(textures, X) :
             /\ t \notin last.freed
             /\ \A f \in last.freed : f.v.serial < t.v.serial
             /\ t.v.width = last.e.image.size[1]
             /\ t.v.height = last.e.image.size[2]
        /\ \A b \in RecordsOf(images, X) :
             /\ b.v.w = last.e.image.size[1]
             /\ b.v.h = last.e.image.size[2]
        /\ textures \cap last.freed = {}

\* C5 witness: the Set recreates an id whose live record a Free removed
C5_Witness ==
    /\ last.op = "SetFull"
    /\ last.freed # {}

\* positions of ds holding an offset-Set whose id is not live when it is met
Offending(st, ds) ==
    {i \in 1..Len(ds) :
        /\ ds[i].op = "Set" /\ ds[i].e.pos # None
        /\ ~Live(ApplySeq(st, SubSeq(ds, 1, i - 1)), ds[i].e.id)}

\* C6: an offset-Set for an id that is not live leaves the store as it was
\* and the set loop goes on; when all deltas are applied the store equals the
\* one got from the same deltas with that offset-Set taken out.
C6_UnknownOffsetSetDropped ==
    /\ (last.op = "SetUnknown" /\ ~Live(last.before, last.e.id)) =>
         (CurStore = last.before /\ pc = "set")
    /\ pc = "batch" =>
         \A i \in Offending(at_start.store, at_start.deltas) :
             CurStore = ApplySeq(at_start.store, RemoveAt(at_start.deltas, i))

\* C6 witness: all deltas are applied, one was an offset-Set for an id not
\* live, and a later no-offset Set of the same update took effect
C6_Witness ==
    /\ pc = "batch"
    /\ \E i \in Offending(at_start.store, at_start.deltas) :
         \E j \in (i + 1)..Len(at_start.deltas) :
             /\ at_start.deltas[j].op = "Set"
             /\ at_start.deltas[j].e.pos = None
    /\ CurStore # at_start.store

\* a primitive that update turns into a batch
ValidMesh(p) == p.type = "Mesh" /\ Len(p.vertices) >= 3
HasCallback(ps) == \E i \in 1..Len(ps) : ps[i].type = "Callback"
ValidCount(ps, n) == Cardinality({i \in 1..n : ValidMesh(ps[i])})

RECURSIVE Batches(_, _)
\* the batches of the valid mesh primitives of ps, in the order of ps
Batches(ps, sf) ==
    IF ps = <<>> THEN <<>>
    ELSE (IF ValidMesh(Head(ps)) THEN <<PaintJob(Head(ps), sf)>> ELSE <<>>)
         \o Batches(Tail(ps), sf)

\* C7 as stated: when update has returned, paint_jobs holds exactly the
\* batches of that update's primitives.
C7_UpdateReplacesBatches ==
    at_start.op = "Returned" =>
        paint_jobs = Batches(at_start.shapes, at_start.scale_factor)

\* C7 amended: update appends the batches of its primitives behind the
\* batches paint_jobs held at entry; paint_jobs holds exactly the batches of
\* the last update when it was empty at entry, as clear leaves it.
C7_UpdateAppendsBatches ==
    /\ at_start.op = "Returned" =>
         /\ paint_jobs = at_start.jobs \o Batches(at_start.shapes, at_start.scale_factor)
         /\ at_start.jobs = <<>> =>
              paint_jobs = Batches(at_start.shapes, at_start.scale_factor)
    /\ pc = "batch" =>
         /\ Len(paint_jobs) >= Len(at_start.jobs)
         /\ SubSeq(paint_jobs, 1, Len(at_start.jobs)) = at_start.jobs

\* C7 witness: an update has returned that found batches of an earlier
\* update in paint_jobs and added its own
C7_Witness ==
    /\ at_start.op = "Returned"
    /\ at_start.jobs # <<>>
    /\ Batches(at_start.shapes, at_start.scale_factor) # <<>>

\* C8: the batches an update pushes are in the order of their primitives,
\* and draw issues its draw calls in the order of paint_jobs, each with the
\* mesh, texture and clip rectangle of its batch.
C8_OrderPreserved ==
    /\ at_start.op = "Returned" =>
         LET new == SubSeq(paint_jobs, Len(at_start.jobs) + 1, Len(paint_jobs))
             valid == SelectSeq(at_start.shapes, ValidMesh)
         IN /\ Len(new) = Len(valid)
            /\ \A i \in 1..Len(new) :
                 /\ new[i].id = valid[i].texture_id
                 /\ Len(new[i].mesh.vertices) = Len(valid[i].vertices)
                 /\ new[i].clip.x = valid[i].clip_rect.min[1] * at_start.scale_factor
                 /\ new[i].clip.w = (valid[i].clip_rect.max[1] - valid[i].clip_rect.min[1])
                                      * at_start.scale_factor
    /\ pc = "draw" =>
         /\ Len(draw_calls) = job_idx - 1
         /\ \A i \in 1..Len(draw_calls) :
              /\ draw_calls[i].mesh = paint_jobs[i].mesh
              /\ draw_calls[i].scissor = paint_jobs[i].clip
              /\ \E t \in textures : t.k = paint_jobs[i].id /\ t.v = draw_calls[i].image

\* C8 witness: draw has issued the calls of two batches of different
\* textures, all of paint_jobs
C8_Witness ==
    /\ pc = "draw"
    /\ job_idx > Len(paint_jobs)
    /\ Len(draw_calls) = 2
    /\ draw_calls[1].image # draw_calls[2].image

\* C9: a mesh primitive of fewer than 3 vertices gets no batch and raises no
\* error, and every mesh primitive of at least 3 vertices met so far, before
\* or after it, has exactly one batch.
C9_DegenerateMeshSkipped ==
    /\ pc = "batch" =>
         Len(paint_jobs) = Len(at_start.jobs) + ValidCount(shapes, shape_idx - 1)
    /\ at_start.op = "Returned" =>
         Len(paint_jobs) = Len(at_start.jobs)
                             + ValidCount(at_start.shapes, Len(at_start.shapes))
    /\ pc = "panicked" => HasCallback(shapes)

\* C9 witness: an update has returned whose list held a mesh of fewer than 3
\* vertices in front of one of 3
C9_Witness ==
    /\ at_start.op = "Returned"
    /\ Len(at_start.shapes) = 2
    /\ at_start.shapes[1].type = "Mesh" /\ Len(at_start.shapes[1].vertices) = 2
    /\ ValidMesh(at_start.shapes[2])
    /\ Len(paint_jobs) = 1

\* C10: update does not get past a Callback primitive: no update returns
\* whose list holds one, and the loop never stands behind one.
C10_CallbackIsFatal ==
    /\ at_start.op = "Returned" => ~HasCallback(at_start.shapes)
    /\ pc = "batch" => ~HasCallback(SubSeq(shapes, 1, shape_idx - 1))

\* C10 witness: update panicked on a Callback primitive that came second,
\* after the batch of the first primitive was pushed
C10_Witness ==
    /\ pc = "panicked"
    /\ Len(shapes) = 2
    /\ shapes[2].type = "Callback"
    /\ ValidMesh(shapes[1])
    /\ Len(paint_jobs) = Len(at_start.jobs) + 1

\* the batch a draw call stopped at when it panicked
FailedAt == at_start.jobs[job_idx]

\* C11: when draw completes, the canvas holds the blend mode the caller had
\* installed before the call and the default scissor, whatever the number of
\* batches drawn (none included).
C11_DrawRestoresCanvas ==
    at_start.op = "Drawn" =>
        /\ canvas.blend = at_start.blend
        /\ canvas.scissor = DefaultScissor
        /\ Len(draw_calls) = Len(at_start.jobs)

\* C11 witness: a draw of two batches has returned to a caller whose blend
\* mode is not the one draw installs
C11_Witness ==
    /\ at_start.op = "Drawn"
    /\ at_start.blend = AlphaBlend
    /\ Len(draw_calls) = 2
    /\ canvas = [blend |-> AlphaBlend, scissor |-> DefaultScissor]

\* C11 witness of the empty list: a draw of no batch has returned
C11_WitnessNoBatch ==
    /\ at_start.op = "Drawn"
    /\ at_start.blend = AlphaBlend
    /\ at_start.jobs = <<>>
    /\ canvas = [blend |-> AlphaBlend, scissor |-> DefaultScissor]

\* C12: on every exit of draw, the failing ones included, the canvas holds
\* the caller's blend mode and the default scissor.
C12_RestoredOnEveryExit ==
    (at_start.op = "Drawn" \/ (at_start.op = "Draw" /\ pc = "panicked")) =>
        /\ canvas.blend = at_start.blend
        /\ canvas.scissor = DefaultScissor

\* C13: every draw call is issued for the batch of its position, under the
\* scissor rectangle of that batch and the blend mode draw installs; a draw
\* that completes has issued one call per batch.
C13_OneCallPerBatch ==
    /\ at_start.op \in {"Draw", "Drawn"} =>
         /\ Len(draw_calls) <= Len(at_start.jobs)
         /\ \A i \in 1..Len(draw_calls) :
              /\ draw_calls[i].mesh = at_start.jobs[i].mesh
              /\ draw_calls[i].scissor = at_start.jobs[i].clip
              /\ draw_calls[i].blend = GuiBlend
    /\ pc = "draw" => Len(draw_calls) = job_idx - 1
    /\ at_start.op = "Drawn" => Len(draw_calls) = Len(at_start.jobs)

\* C13 witness: a draw has completed with two calls under two different
\* scissor rectangles
C13_Witness ==
    /\ at_start.op = "Drawn"
    /\ Len(draw_calls) = 2
    /\ draw_calls[1].scissor # draw_calls[2].scissor
    /\ draw_calls[1].scissor = at_start.jobs[1].clip

\* C14: a batch whose texture id the store does not hold ends draw with a
\* panic at that batch: the calls issued are those of the batches before it,
\* each with the live texture of its own id, and draw neither returns nor
\* goes on to a later batch.
C14_UnknownTextureIsFatal ==
    /\ at_start.op \in {"Draw", "Drawn"} =>
         \A i \in 1..Len(draw_calls) :
             /\ ContainsKey(textures, at_start.jobs[i].id)
             /\ draw_calls[i].image = Get(textures, at_start.jobs[i].id)
    /\ pc = "draw" =>
         \A i \in 1..(job_idx - 1) : ContainsKey(textures, paint_jobs[i].id)
    /\ at_start.op = "Drawn" =>
         \A i \in 1..Len(at_start.jobs) : ContainsKey(textures, at_start.jobs[i].id)
    /\ (at_start.op = "Draw" /\ pc = "panicked") =>
         /\ job_idx <= Len(at_start.jobs)
         /\ ScissorRejected(FailedAt.clip) \/ ~ContainsKey(textures, FailedAt.id)
         /\ Len(draw_calls) = job_idx - 1

\* C14 witness: draw panicked at the first of two batches, whose texture had
\* been freed, while the texture of the second batch was live
C14_Witness ==
    /\ at_start.op = "Draw" /\ pc = "panicked"
    /\ job_idx = 1
    /\ Len(at_start.jobs) = 2
    /\ ~ContainsKey(textures, at_start.jobs[1].id)
    /\ ContainsKey(textures, at_start.jobs[2].id)
    /\ draw_calls = <<>>

\* the batch pushed last and the clip rectangle it was built from
LastJob == paint_jobs[Len(paint_jobs)]
LastClip == at_start.shapes[Len(at_start.shapes)].clip_rect

\* C15: the scissor rectangle of a batch has the logical clip rectangle's
\* min corner times the scale factor as its origin and the logical extent
\* times the scale factor as its size, so that its max corner is the logical
\* max corner times the scale factor; (10,10)-(50,40) at scale 2 is the
\* pixel rectangle (20,20)-(100,80).
C15_ClipScaledToPixels ==
    (at_start.op = "Returned" /\ at_start.shapes # <<>>) =>
        LET sf == at_start.scale_factor
            r == LastJob.clip
        IN  /\ r.x = LastClip.min[1] * sf
            /\ r.y = LastClip.min[2] * sf
            /\ r.x + r.w = LastClip.max[1] * sf
            /\ r.y + r.h = LastClip.max[2] * sf
            /\ (LastClip = ClipRect(10, 10, 50, 40) /\ sf = 2) =>
                   r = [x |-> 20, y |-> 20, w |-> 80, h |-> 60]

\* C15 witness: the clip rectangle (10,10)-(50,40) was batched at scale 2
\* and the batch's rectangle reaches from (20,20) to (100,80)
C15_Witness ==
    /\ at_start.op = "Returned"
    /\ at_start.shapes # <<>>
    /\ LastClip = ClipRect(10, 10, 50, 40)
    /\ at_start.scale_factor = 2
    /\ LastJob.clip.x = 20 /\ LastJob.clip.y = 20
    /\ LastJob.clip.x + LastJob.clip.w = 100
    /\ LastJob.clip.y + LastJob.clip.h = 80

\* Unicode general category Cc: the C0 controls, DEL and the C1 controls
IsControl(c) == c <= 31 \/ (c >= 127 /\ c <= 159)
\* Unicode general category Co: the three private use areas
IsPrivateUse(c) ==
    \/ c >= 57344 /\ c <= 63743
    \/ c >= 983040 /\ c <= 1048573
    \/ c >= 1048576 /\ c <= 1114109

\* C16: text_input_event(ch) appends exactly one Text event of ch when ch is
\* neither a control character nor a private-use code point, and leaves the
\* pending events as they were for every control character and every
\* private-use code point.
C16_TextFiltered ==
    last.op = "TextInput" =>
        IF IsControl(last.ch) \/ IsPrivateUse(last.ch)
        THEN events = last.before
        ELSE events = Append(last.before, TextEvent(last.ch))

\* the ASCII control characters: U+0000..U+001F and U+007F
AsciiControls == (0..31) \cup {127}

\* C16 as the code has it: text_input_event(ch) appends exactly one Text
\* event of ch when ch is neither an ASCII control character nor a
\* private-use code point, and leaves the pending events as they were for
\* every ASCII control character and every private-use code point; the
\* controls U+0080..U+009F are reported as text.
C16_TextFilteredAscii ==
    last.op = "TextInput" =>
        /\ (last.ch \in AsciiControls \/ IsPrivateUse(last.ch)) =>
               events = last.before
        /\ (last.ch \notin AsciiControls /\ ~IsPrivateUse(last.ch)) =>
               events = Append(last.before, TextEvent(last.ch))
        /\ (last.ch >= 128 /\ last.ch <= 159) =>
               events = Append(last.before, TextEvent(last.ch))

\* C16 witness: the control U+0085 was appended as text by an earlier call,
\* and the call for the private-use code point U+FFFFD left the pending
\* events as they were
C16_Witness ==
    /\ last.op = "TextInput"
    /\ last.ch = 1048573
    /\ last.before = <<TextEvent(133)>>
    /\ events = last.before

\* the sub-image src placed at pos lies inside dst
Fits(dst, src, pos) == pos[1] + src.w <= dst.w /\ pos[2] + src.h <= dst.h

\* dst with the rows of src copied over the rectangle at pos, 4 bytes a pixel
CopiedInto(dst, src, pos) ==
    [pix |-> [b \in 1..Len(dst.pix) |->
                LET p == (b - 1) \div 4
                    c == (b - 1) % 4
                    x == p % dst.w
                    y == p \div dst.w
                IN  IF /\ x >= pos[1] /\ x < pos[1] + src.w
                       /\ y >= pos[2] /\ y < pos[2] + src.h
                    THEN src.pix[((y - pos[2]) * src.w + (x - pos[1])) * 4 + c + 1]
                    ELSE dst.pix[b]],
     w |-> dst.w, h |-> dst.h]

\* C17: an offset-Set whose sub-image does not fit the destination touches
\* no index outside either buffer and leaves the destination's pixels as
\* they were; one that fits copies the sub-image row by row into the
\* destination at the offset, every index walked lying inside the source
\* and inside the destination.
C17_BlitCopiesInBounds ==
    last.op = "SetOffset" =>
        LET dst == Get(last.before.images, last.e.id)
            src == from_image_data(last.e.image)
            r == blit(dst, src, last.e.pos)
        IN  /\ \A k \in 1..Len(r.printed) :
                  /\ r.printed[k][1] < dst.w * dst.h
                  /\ r.printed[k][2] < src.w * src.h
            /\ Fits(dst, src, last.e.pos) => r.buf = CopiedInto(dst, src, last.e.pos)
            /\ ~Fits(dst, src, last.e.pos) => r.buf = dst

\* the ids a map has an entry for
Keys(m) == {t.k : t \in m}

\* C18: in every state the ids that have a GPU image are the ids that have a
\* CPU-side pixel buffer.
C18_HandlesMatchBuffers == Keys(textures) = Keys(images)

\* the GUI library's contract on what it hands to an update: every primitive
\* references an id that is live once the pending deltas have been applied
ContractHolds ==
    LET st == ApplySeq(CurStore, Flatten(textures_delta))
    IN  \A i \in 1..Len(shapes) : ContainsKey(st.textures, shapes[i].texture_id)

\* Painter::update called on output that keeps the contract
UpdateContract(sf) == ContractHolds /\ UpdateBegin(sf)

NextContract ==
    \/ \E td \in DrawDeltas : PushDelta(td)
    \/ \E s \in DrawShapes : SetShapes(s)
    \/ Clear
    \/ \E sf \in Scales : UpdateContract(sf)
    \/ DrainPop \/ DrainDone
    \/ SetNoOffset \/ SetDone
    \/ FreeStep \/ FreeDone
    \/ BatchPush
    \/ UpdateReturn
    \/ \E b \in CallerBlends, sf \in Scales : DrawBegin(b, sf)
    \/ DrawUnknownTexture \/ DrawJob
    \/ DrawReturn

SpecContract == Init /\ [][NextContract]_vars

\* draw stands at, or has panicked at, a batch whose texture id is not live
MeetsDeadTexture ==
    /\ at_start.op = "Draw"
    /\ job_idx <= Len(paint_jobs)
    /\ ~ContainsKey(textures, paint_jobs[job_idx].id)

\* C19: when every update is handed primitives that reference only ids live
\* after that update's deltas, draw never meets a batch whose texture id is
\* not live, whatever the order of the clear, update and draw calls.
C19_ContractKeepsDrawSafe == ~MeetsDeadTexture

\* C19 as the code has it: under the same contract, draw never meets a batch
\* whose texture id is not live as long as the batch list was empty when the
\* last update was entered, so that it holds no batch of an earlier update.
C19_ContractAndClearKeepDrawSafe == ~mixed => ~MeetsDeadTexture

\* C19 witness: with no batch of an earlier update in the list, a draw has
\* completed with a call after texture T1, which existed, was freed
C19_Witness ==
    /\ ~mixed
    /\ at_start.op = "Drawn"
    /\ Len(draw_calls) >= 1
    /\ \E t \in freed : t.k = "T1"
    /\ ~ContainsKey(textures, "T1")

\* the buffer has 4 bytes for each of its w * h pixels
WellSized(buf) == Len(buf.pix) = buf.w * buf.h * 4

\* C20: every pixel buffer of the store has pixels.len() = w * h * 4 in
\* every state, for color and font images of any size, width or height 0
\* included; an offset-Set leaves the length and the dimensions of the
\* buffer it blits into as they were, and no delta changes the length or the
\* dimensions of a buffer that stays stored.
C20_BufferLengthMatchesSize ==
    /\ \A b \in images : WellSized(b.v)
    /\ last.op = "SetFull" =>
         /\ ContainsKey(images, last.e.id)
         /\ Get(images, last.e.id).w = last.e.image.size[1]
         /\ Get(images, last.e.id).h = last.e.image.size[2]
    /\ last.op = "SetOffset" =>
         LET dst == Get(last.before.images, last.e.id)
             r == blit(dst, from_image_data(last.e.image), last.e.pos).buf
         IN  /\ Len(r.pix) = Len(dst.pix) /\ r.w = dst.w /\ r.h = dst.h
             /\ WellSized(r)
    /\ last.op \in {"SetOffset", "SetUnknown", "Free"} =>
         \A b \in images : b \in last.before.images

\* C20 witness: the buffer of a font image of width 0 and height 2 is
\* stored, with no byte
C20_Witness ==
    /\ last.op = "SetFull"
    /\ last.e.image.kind = "Font"
    /\ last.e.image.size = <<0, 2>>
    /\ Get(images, "T1") = [pix |-> <<>>, w |-> 0, h |-> 2]

\* C20 witness of a buffer with pixels: a 2 x 2 color image stored as 16 bytes
C20_WitnessFull ==
    /\ last.op = "SetFull"
    /\ last.e.image.kind = "Color"
    /\ Get(images, "T1").w = 2 /\ Get(images, "T1").h = 2
    /\ Len(Get(images, "T1").pix) = 16

====
